---- MODULE Spec2Model ----
(***************************************************************************)
(* Model of ggshield/core/scan/commit.py: the parser that turns the output *)
(* of `git show` / `git diff --cached` (run with --raw -z --patch -m) into *)
(* file records, and the Commit object that runs it lazily.                *)
(*                                                                         *)
(* Text is a sequence of characters.  A character is a one-element string; *)
(* the literals the code searches for as a whole ("commit ", "diff ",      *)
(* "@@") and the runs of text the code never looks into (permissions and   *)
(* hashes, commit message, diff metadata, hunk body) are one character     *)
(* each.                                                                   *)
(***************************************************************************)
EXTENDS Integers, Sequences, FiniteSets, TLC

VARIABLES
    line, lineOut,                       \* a raw header line and its decoding
    patchIn, exclIn, showOut, diffOut,   \* a patch, exclusions, the two parses
    gitRepo, self, gitLog, parserRuns, gens, seen   \* a Commit and its caller

lineVars == <<line, lineOut>>
parseVars == <<patchIn, exclIn, showOut, diffOut>>
commitVars == <<gitRepo, self, gitLog, parserRuns, gens, seen>>
vars == <<line, lineOut, patchIn, exclIn, showOut, diffOut,
          gitRepo, self, gitLog, parserRuns, gens, seen>>

-----------------------------------------------------------------------------
(* Characters *)

NUL == "\\0"
NL == "\\n"
SP == " "
COLON == ":"
KW_COMMIT == "commit "
KW_DIFF == "diff "
HUNK == "@@"
Digits == {"0", "1", "2", "3", "4", "5", "6", "7", "8", "9"}

-----------------------------------------------------------------------------
(* Python string primitives, as the code uses them *)

\* s[i:i+len(sep)] == sep
StartsAt(s, i, sep) ==
    /\ i + Len(sep) - 1 <= Len(s)
    /\ \A k \in 1..Len(sep) : s[i + k - 1] = sep[k]

\* str.find(sub): the first index (1-based) where sub starts, 0 when absent
Find(s, sub) ==
    LET hits == {i \in 1..Len(s) : StartsAt(s, i, sub)}
    IN IF hits = {} THEN 0 ELSE CHOOSE i \in hits : \A j \in hits : i <= j

\* The separators the code splits on; each is a match predicate and a length.
\*   "commit"  patch.split("\0commit ")
\*   "diff"    commit.split("\0diff ", 1)
\*   "^diff"   re.split(r"^diff ", rest, flags=re.MULTILINE)
\*   "hdr"     _RX_HEADER_LINE_SEPARATOR = re.compile("[\n\0]:", re.MULTILINE)
\*   "nul"     line.split("\0")
MatchAt(kind, s, i) ==
    CASE kind = "commit" -> StartsAt(s, i, <<NUL, KW_COMMIT>>)
      [] kind = "diff"   -> StartsAt(s, i, <<NUL, KW_DIFF>>)
      [] kind = "^diff"  -> s[i] = KW_DIFF /\ (i = 1 \/ s[i - 1] = NL)
      [] kind = "hdr"    -> /\ i + 1 <= Len(s)
                            /\ s[i] \in {NL, NUL}
                            /\ s[i + 1] = COLON
      [] kind = "nul"    -> s[i] = NUL

MatchLen(kind) ==
    CASE kind = "commit" -> 2
      [] kind = "diff"   -> 2
      [] kind = "^diff"  -> 1
      [] kind = "hdr"    -> 2
      [] kind = "nul"    -> 1

\* where the separator matches (its matches cannot overlap: no separator's
\* last character can start it)
Matches(kind, s) == {i \in 1..Len(s) : MatchAt(kind, s, i)}

\* the j-th smallest element of a set of numbers
Nth(P, j) == CHOOSE x \in P : Cardinality({y \in P : y < x}) = j - 1

\* the pieces of s between the matches at the positions P, in order
Pieces(s, P, len) ==
    [j \in 1..(Cardinality(P) + 1) |->
        SubSeq(s, IF j = 1 THEN 1 ELSE Nth(P, j - 1) + len,
                  IF j = Cardinality(P) + 1 THEN Len(s) ELSE Nth(P, j) - 1)]

\* str.split(sep) and re.split(pattern, s): cut at every match
Split(kind, s) == Pieces(s, Matches(kind, s), MatchLen(kind))

First(P) == IF P = {} THEN {} ELSE {Nth(P, 1)}

\* str.split(sep, 1): cut at the first match only
Split1(kind, s) == Pieces(s, First(Matches(kind, s)), MatchLen(kind))

\* str.rstrip(chars)
RECURSIVE RStrip(_, _)
RStrip(s, chars) ==
    IF s # <<>> /\ s[Len(s)] \in chars
    THEN RStrip(SubSeq(s, 1, Len(s) - 1), chars)
    ELSE s

\* s.rsplit(" ", 1)[-1]: what follows the last space, or all of s
AfterLastSpace(s) ==
    LET sp == {i \in 1..Len(s) : s[i] = SP}
    IN IF sp = {} THEN s
       ELSE SubSeq(s, (CHOOSE i \in sp : \A j \in sp : j <= i) + 1, Len(s))

\* "X" in status
In(c, s) == \E i \in 1..Len(s) : s[i] = c

-----------------------------------------------------------------------------
(* Decoding one raw header line *)

NoError == <<>>
ErrUnpack == <<"not enough values to unpack (expected at least 2, got 1)">>
ErrIndex == <<"string index out of range">>
ErrUnknownStatus(ln, status) ==
    <<"Can't parse header line ">> \o ln \o <<": unknown status ">> \o status

\* status = prefix.rsplit(" ", 1)[-1].rstrip("0123456789")
StatusOf(prefix) == RStrip(AfterLastSpace(prefix), Digits)

\* FilemodeOf with the test for D moved to the front
FilemodeDeleteFirst(status) ==
    IF In("D", status) THEN "DELETE"
    ELSE IF In("M", status) THEN "MODIFY"
    ELSE IF In("C", status) THEN "NEW"
    ELSE IF In("A", status) THEN "NEW"
    ELSE IF In("T", status) THEN "NEW"
    ELSE IF In("R", status) THEN "RENAME"
    ELSE "none"

\* the if/elif chain on the status letters; "none" is the else branch
FilemodeOf(status) ==
    IF In("M", status) THEN "MODIFY"
    ELSE IF In("C", status) THEN "NEW"
    ELSE IF In("A", status) THEN "NEW"
    ELSE IF In("T", status) THEN "NEW"
    ELSE IF In("R", status) THEN "RENAME"
    ELSE IF In("D", status) THEN "DELETE"
    ELSE "none"

\* the if/elif chain at the end of _parse_patch_header_line
HeaderLineResult(ln, name, status, filemode) ==
    IF filemode = "none"
    THEN [err |-> ErrUnknownStatus(ln, status), name |-> <<>>, mode |-> "none"]
    ELSE [err |-> NoError, name |-> name, mode |-> filemode]

\* prefix, name, *rest = parts; if rest: name = rest[0]
HeaderLineParts(ln, parts) ==
    IF Len(parts) < 2
    THEN [err |-> ErrUnpack, name |-> <<>>, mode |-> "none"]
    ELSE HeaderLineResult(ln, IF Len(parts) > 2 THEN parts[3] ELSE parts[2],
                          StatusOf(parts[1]), FilemodeOf(StatusOf(parts[1])))

\* returns [err, name, mode]; err # NoError is the exception's message
_parse_patch_header_line(ln) ==
    HeaderLineParts(ln, Split("nul", RStrip(ln, {NUL})))

-----------------------------------------------------------------------------
(* _parse_patch_header and _parse_patch *)

\* is_filepath_excluded(filename, exclusion_regexes): a pattern is modelled by
\* the one filename it matches
is_filepath_excluded(filename, exclusion_regexes) == filename \in exclusion_regexes

\* StringScannable(filename, content, filemode=filemode)
StringScannable(filename, content, filemode) ==
    [filename |-> filename, content |-> content, filemode |-> filemode]

\* _RX_HEADER_LINE_SEPARATOR.split(header)[1:], each with its colon put back
LinesOf(segs) == [k \in 1..(Len(segs) - 1) |-> <<COLON>> \o segs[k + 1]]

\* HeaderLines without the blank line put before a header that starts with ":"
HeaderLinesNoBlankLine(header) == LinesOf(Split("hdr", header))

\* The lines _parse_patch_header hands to _parse_patch_header_line, in order
HeaderLines(header) ==
    LinesOf(Split("hdr", IF header[1] = COLON THEN <<NL>> \o header ELSE header))

\* a generator's run, cut at the first element that raised
UntilError(results) ==
    LET bad == {k \in 1..Len(results) : results[k].err # NoError}
        stop == IF bad = {} THEN Len(results) + 1
                ELSE CHOOSE k \in bad : \A j \in bad : k <= j
    IN [items |-> SubSeq(results, 1, stop - 1),
        err |-> IF bad = {} THEN NoError ELSE results[stop].err]

DecodeEach(lines) == [k \in 1..Len(lines) |-> _parse_patch_header_line(lines[k])]

\* _parse_patch_header(header), a generator: items are the pairs it yields, in
\* order; err is the exception raised by the resume after the last item
\* (NoError: the generator returns).  An empty header raises IndexError at
\* the first resume.
_parse_patch_header(header) ==
    IF header = <<>> THEN [items |-> <<>>, err |-> ErrIndex]
    ELSE UntilError(DecodeEach(HeaderLines(header)))

\* try: end_of_headers = diff.index("\n@@") except ValueError: continue
\* content = diff[end_of_headers + 1 :]
ContentAt(diff, end_of_headers) ==
    [found |-> end_of_headers # 0,
     content |-> SubSeq(diff, end_of_headers + 1, Len(diff))]

ContentOf(diff) == ContentAt(diff, Find(diff, <<NL, HUNK>>))

\* the body of the for loop: nothing for an excluded file or a diff without
\* a hunk, else one record
LoopBody(nm, c, exclusion_regexes) ==
    IF is_filepath_excluded(nm.name, exclusion_regexes) \/ ~c.found
    THEN <<>>
    ELSE <<StringScannable(nm.name, c.content, nm.mode)>>

Yielded(here, more) ==
    [files |-> here \o more.files, err |-> more.err, decoded |-> more.decoded]

\* ZipLoop over list(names_and_modes): the whole header is decoded before the
\* first pair is made
RECURSIVE ZipLoopEager(_, _, _, _)
ZipLoopEager(names_and_modes, diffs, i, exclusion_regexes) ==
    IF names_and_modes.err # NoError
    THEN [files |-> <<>>, err |-> names_and_modes.err,
          decoded |-> Len(names_and_modes.items) + 1]
    ELSE IF i > Len(names_and_modes.items) \/ i > Len(diffs)
    THEN [files |-> <<>>, err |-> NoError, decoded |-> Len(names_and_modes.items)]
    ELSE Yielded(LoopBody(names_and_modes.items[i], ContentOf(diffs[i]),
                          exclusion_regexes),
                 ZipLoopEager(names_and_modes, diffs, i + 1, exclusion_regexes))

\* `for (filename, filemode), diff in zip(names_and_modes, diffs)` from pair i
\* on.  zip first resumes names_and_modes, then takes diffs[i].  Result: the
\* records yielded, the exception that ended the loop (NoError: none), and
\* how many times names_and_modes was resumed up to a pair or an exception.
RECURSIVE ZipLoop(_, _, _, _)
ZipLoop(names_and_modes, diffs, i, exclusion_regexes) ==
    IF i > Len(names_and_modes.items)
    THEN [files |-> <<>>, err |-> names_and_modes.err,
          decoded |-> IF names_and_modes.err = NoError
                      THEN Len(names_and_modes.items) ELSE i]
    ELSE IF i > Len(diffs)
    THEN [files |-> <<>>, err |-> NoError, decoded |-> i]
    ELSE Yielded(LoopBody(names_and_modes.items[i], ContentOf(diffs[i]),
                          exclusion_regexes),
                 ZipLoop(names_and_modes, diffs, i + 1, exclusion_regexes))

ChunkResult(z) == [files |-> z.files, err |-> z.err, decoded |-> <<z.decoded>>]

NotExcluded(names_and_modes, exclusion_regexes) ==
    [items |-> SelectSeq(names_and_modes.items,
                         LAMBDA nm : ~is_filepath_excluded(nm.name, exclusion_regexes)),
     err |-> names_and_modes.err]

\* ParseTokens with the excluded files taken out of the header before it is
\* paired with the diffs
ParseTokensFilterFirst(tokens, exclusion_regexes) ==
    IF Len(tokens) = 1
    THEN [files |-> <<>>, err |-> NoError, decoded |-> <<>>]
    ELSE ChunkResult(ZipLoop(NotExcluded(_parse_patch_header(tokens[1]), exclusion_regexes),
                             Split("^diff", tokens[2]), 1, {}))

\* header, rest = tokens
ParseTokens(tokens, exclusion_regexes) ==
    IF Len(tokens) = 1
    THEN [files |-> <<>>, err |-> NoError, decoded |-> <<>>]
    ELSE ChunkResult(ZipLoop(_parse_patch_header(tokens[1]),
                             Split("^diff", tokens[2]), 1, exclusion_regexes))

\* one element of `for commit in patch.split("\0commit ")`
ParseChunk(commit, exclusion_regexes) ==
    ParseTokens(Split1("diff", commit), exclusion_regexes)

ChunkThen(c, more) ==
    [files |-> c.files \o more.files, err |-> more.err,
     decoded |-> c.decoded \o more.decoded]

RECURSIVE ParseChunks(_, _, _)
ParseChunks(results, k, exclusion_regexes) ==
    IF k > Len(results)
    THEN [files |-> <<>>, err |-> NoError, decoded |-> <<>>]
    ELSE IF results[k].err # NoError THEN results[k]
    ELSE ChunkThen(results[k], ParseChunks(results, k + 1, exclusion_regexes))

EachChunk(chunks, exclusion_regexes) ==
    [k \in 1..Len(chunks) |-> ParseChunk(chunks[k], exclusion_regexes)]

\* _parse_patch(patch, exclusion_regexes), a generator run to its end: the
\* records it yields, in order, then the exception that ends it (NoError: it
\* returns).  decoded: per chunk that has a diff, the number of header lines
\* decoded.
_parse_patch(patch, exclusion_regexes) ==
    ParseChunks(EachChunk(Split("commit", patch), exclusion_regexes), 1,
                exclusion_regexes)

-----------------------------------------------------------------------------
(* What git writes: the text of raw header lines and of patches *)

MaxParents == 2     \* status letters on one raw header line
MaxFiles == 3       \* raw header lines in one commit chunk
MaxBlocks == 2      \* diff blocks in one commit chunk

StatusLetters == {"M", "A", "C", "T", "R", "D"}
OtherLetters == {"X"}
NameA == <<"a">>
NameB == <<"b">>
NameColon == <<COLON, "c">>     \* a file called ":c"

RECURSIVE Flatten(_)
Flatten(ss) == IF ss = <<>> THEN <<>> ELSE Head(ss) \o Flatten(Tail(ss))

\* :<modes and hashes> <status><score>\0<name>\0[<new name>\0], one colon per
\* parent; e is [status, score, names]
RenderEntry(e) ==
    [k \in 1..Len(e.status) |-> COLON] \o <<"100644", SP, "587be6b", SP>>
    \o e.status \o e.score
    \o Flatten([k \in 1..Len(e.names) |-> <<NUL>> \o e.names[k]]) \o <<NUL>>

\* the text handed to _parse_patch_header_line for an entry: the leading colon
\* is put back by _parse_patch_header, the final NUL is there for the last
\* line of a header only
RenderLine(e, lastLine) ==
    IF lastLine THEN RenderEntry(e)
    ELSE SubSeq(RenderEntry(e), 1, Len(RenderEntry(e)) - 1)

BodyNames == <<"+body1", "+body2", "+body3", "+body4", "+body5">>

\* a diff block after its "diff " was split off: extended header lines, then
\* the hunks if the file's content changed
RenderBlock(k, hunk) ==
    <<"--git", NL, "index", NL>>
    \o (IF hunk THEN <<HUNK, BodyNames[k], NL>> ELSE <<>>)

RenderBlocks(blocks) ==
    Flatten([k \in 1..Len(blocks) |->
                (IF k = 1 THEN <<NUL, KW_DIFF>> ELSE <<KW_DIFF>>)
                \o RenderBlock(k, blocks[k])])

RenderEntries(entries) == Flatten([k \in 1..Len(entries) |-> RenderEntry(entries[k])])

\* "sha\nAuthor: .. <..>\nDate: ..\n\n    message\n\n"
Preamble(withInfo) ==
    <<"9537b63", NL>> \o (IF withInfo THEN <<"Author:Date:", NL>> ELSE <<>>)
    \o <<NL, "message", NL, NL>>

\* one commit chunk of `git show`; changed = FALSE: this parent has no change
ShowChunk(p, changed) ==
    Preamble(p.info)
    \o (IF changed THEN RenderEntries(p.entries) \o RenderBlocks(p.blocks) ELSE <<>>)

\* `git show <sha> --raw -z --patch -m`: one chunk per parent
ShowPatch(p) ==
    <<KW_COMMIT>> \o ShowChunk(p, p.parents[1])
    \o Flatten([k \in 1..(Len(p.parents) - 1) |->
                   <<NUL, KW_COMMIT>> \o ShowChunk(p, p.parents[k + 1])])

\* `git diff --cached --raw -z --patch -m`: no commit information
DiffPatch(p) == RenderEntries(p.entries) \o RenderBlocks(p.blocks)

RECURSIVE SeqsUpTo(_, _)
SeqsUpTo(S, n) ==
    IF n = 0 THEN {<<>>}
    ELSE LET shorter == SeqsUpTo(S, n - 1)
         IN shorter \cup {Append(q, x) : q \in {r \in shorter : Len(r) = n - 1}, x \in S}

LineInputs ==
    [status : SeqsUpTo(StatusLetters \cup OtherLetters, MaxParents) \ {<<>>},
     score : {<<>>, <<"5", "0">>},
     names : {<<NameA>>, <<NameA, NameB>>},
     last : BOOLEAN]

Entries ==
    { [status |-> <<"M">>, score |-> <<>>, names |-> <<NameA>>],
      [status |-> <<"R">>, score |-> <<"5", "0">>, names |-> <<NameA, NameB>>],
      [status |-> <<"X">>, score |-> <<>>, names |-> <<NameA>>],
      [status |-> <<"M">>, score |-> <<>>, names |-> <<NameColon>>] }

Layouts == {<<TRUE>>, <<TRUE, TRUE>>, <<FALSE, TRUE>>}

PatchInputs ==
    [entries : SeqsUpTo(Entries, MaxFiles),
     blocks : SeqsUpTo(BOOLEAN, MaxBlocks),
     parents : Layouts,
     info : {TRUE}]

Exclusions == {{}, {NameA}, {NameB}}

-----------------------------------------------------------------------------
(* SpecLine: _parse_patch_header_line applied to a raw header line *)

Pending == <<>>

InitLine ==
    /\ line \in LineInputs
    /\ lineOut = Pending
    /\ patchIn = <<>> /\ exclIn = {} /\ showOut = Pending /\ diffOut = Pending
    /\ gitRepo = <<>> /\ self = <<>> /\ gitLog = <<>> /\ parserRuns = 0
    /\ gens = <<>> /\ seen = <<>>

DecodeLine ==
    /\ lineOut = Pending
    /\ lineOut' = <<_parse_patch_header_line(RenderLine(line, line.last))>>
    /\ UNCHANGED <<line, parseVars, commitVars>>

NextLine == DecodeLine

SpecLine == InitLine /\ [][NextLine]_vars

-----------------------------------------------------------------------------
(* SpecParse: _parse_patch applied to what `git show` and `git diff` write *)

InitParse ==
    /\ patchIn \in PatchInputs
    /\ exclIn \in Exclusions
    /\ exclIn = {} \/ Len(patchIn.parents) = 1
    /\ showOut = Pending /\ diffOut = Pending
    /\ line = <<>> /\ lineOut = Pending
    /\ gitRepo = <<>> /\ self = <<>> /\ gitLog = <<>> /\ parserRuns = 0
    /\ gens = <<>> /\ seen = <<>>

ParseShow ==
    /\ showOut = Pending
    /\ showOut' = <<_parse_patch(ShowPatch(patchIn), exclIn)>>
    /\ UNCHANGED <<patchIn, exclIn, diffOut, lineVars, commitVars>>

ParseDiff ==
    /\ showOut # Pending
    /\ diffOut = Pending
    /\ Len(patchIn.parents) = 1
    /\ diffOut' = <<_parse_patch(DiffPatch(patchIn), exclIn)>>
    /\ UNCHANGED <<patchIn, exclIn, showOut, lineVars, commitVars>>

NextParse == ParseShow \/ ParseDiff

SpecParse == InitParse /\ [][NextParse]_vars

-----------------------------------------------------------------------------
(* What the patch says, read off its structure *)

Min(a, b) == IF a < b THEN a ELSE b

\* the name a header entry gives the file: the new name of a rename
FinalName(e) == e.names[Len(e.names)]

Letters(status) == {status[k] : k \in 1..Len(status)}

\* the precedence of the status letters: M, then C/A/T, then R, then D
Precedence(status) ==
    IF "M" \in Letters(status) THEN "MODIFY"
    ELSE IF Letters(status) \cap {"C", "A", "T"} # {} THEN "NEW"
    ELSE IF "R" \in Letters(status) THEN "RENAME"
    ELSE "DELETE"

Recognised(e) == Letters(e.status) \subseteq StatusLetters
ColonName(e) == \E k \in 1..Len(e.names) : e.names[k][1] = COLON
Decodable(e) == Recognised(e) /\ ~ColonName(e)

\* what block k holds from its first hunk header on
BlockContent(k) == <<HUNK, BodyNames[k], NL>>

\* the record of file k of a chunk
RecordOf(p, k) == StringScannable(FinalName(p.entries[k]), BlockContent(k),
                                  Precedence(p.entries[k].status))

\* the records of the files of one chunk whose index is in keep, in header
\* order
RECURSIVE ChunkRecords(_, _, _)
ChunkRecords(p, n, keep) ==
    IF n = 0 THEN <<>>
    ELSE ChunkRecords(p, n - 1, keep)
         \o (IF n \in keep THEN <<RecordOf(p, n)>> ELSE <<>>)

Changed(p) == Cardinality({k \in 1..Len(p.parents) : p.parents[k]})

\* a sequence, n times over
RECURSIVE Times(_, _)
Times(q, n) == IF n = 0 THEN <<>> ELSE q \o Times(q, n - 1)

ShowDone == showOut # Pending
DiffDone == diffOut # Pending

\* the header text of a chunk that has diff blocks, in either style
ShowHeader(p) == <<KW_COMMIT>> \o Preamble(p.info) \o RenderEntries(p.entries)
DiffHeader(p) == RenderEntries(p.entries)

-----------------------------------------------------------------------------
(* Claims on _parse_patch_header_line (SpecLine) *)

\* C1: for a status made of letters from {M, A, C, T, R, D}, one per parent,
\* in any order, with or without a score, the decoded filemode is MODIFY if
\* any letter is M, else NEW if any is C, A or T, else RENAME if any is R,
\* else DELETE.
C1_StatusPrecedence ==
    (lineOut # Pending /\ Letters(line.status) \subseteq StatusLetters)
        => /\ lineOut[1].err = NoError
           /\ lineOut[1].mode = Precedence(line.status)

C1_Witness ==
    /\ lineOut # Pending
    /\ line.status = <<"D", "M">>
    /\ line.score # <<>>
    /\ lineOut[1].mode = "MODIFY"

-----------------------------------------------------------------------------
(* Claims on _parse_patch (SpecParse) *)

WellFormed(p) ==
    /\ Len(p.entries) = Len(p.blocks)
    /\ \A k \in 1..Len(p.entries) : Recognised(p.entries[k])

\* C5: a patch with N files (each with a recognised status and a hunk), parsed
\* with no exclusion, gives exactly N records in header order, the i-th with
\* the name and filemode of header entry i and the content of diff block i.
C5_RoundTrip ==
    (ShowDone /\ exclIn = {} /\ WellFormed(patchIn)
        /\ \A k \in 1..Len(patchIn.blocks) : patchIn.blocks[k])
        => /\ showOut[1].err = NoError
           /\ showOut[1].files =
                Times(ChunkRecords(patchIn, Len(patchIn.entries),
                                   1..Len(patchIn.entries)),
                      Changed(patchIn))

\* C6: no record has an excluded filename, and the records are those of the
\* parse without exclusions whose filename is not excluded, each with the
\* content of the diff block at the index of its own header entry.
C6_Exclusion ==
    ShowDone =>
        /\ \A k \in 1..Len(showOut[1].files) : showOut[1].files[k].filename \notin exclIn
        /\ showOut[1].files =
              SelectSeq(_parse_patch(ShowPatch(patchIn), {}).files,
                        LAMBDA f : f.filename \notin exclIn)
        /\ showOut[1].err = _parse_patch(ShowPatch(patchIn), {}).err
        /\ \A k \in 1..Len(showOut[1].files) :
              \E j \in 1..Min(Len(patchIn.entries), Len(patchIn.blocks)) :
                  /\ showOut[1].files[k].filename = FinalName(patchIn.entries[j])
                  /\ showOut[1].files[k].content = BlockContent(j)

C6_Witness ==
    /\ ShowDone
    /\ exclIn = {NameA}
    /\ Len(patchIn.entries) = 2 /\ patchIn.blocks = <<TRUE, TRUE>>
    /\ FinalName(patchIn.entries[1]) = NameA
    /\ showOut[1].files = <<StringScannable(NameB, BlockContent(2), "RENAME")>>

\* C7: a diff block without a hunk gives no record and no error, and every
\* other file of the commit whose block has a hunk (and that is not excluded)
\* is still produced, with its own name, filemode and content.
C7_NoHunkSkipped ==
    (ShowDone /\ WellFormed(patchIn))
        => /\ showOut[1].err = NoError
           /\ showOut[1].files =
                Times(ChunkRecords(patchIn, Len(patchIn.entries),
                         {k \in 1..Len(patchIn.entries) :
                             /\ patchIn.blocks[k]
                             /\ FinalName(patchIn.entries[k]) \notin exclIn}),
                      Changed(patchIn))

\* C8: with at least one raw status line, the `git diff` text and the
\* `git show` text of the same changes give the same header pairs and the
\* same records, and a header that decodes gives one pair per file, the
\* first file first.
C8_StyleEquivalence ==
    (ShowDone /\ DiffDone /\ Len(patchIn.entries) >= 1)
        => /\ diffOut[1].files = showOut[1].files
           /\ diffOut[1].err = showOut[1].err
           /\ _parse_patch_header(DiffHeader(patchIn))
                = _parse_patch_header(ShowHeader(patchIn))
           /\ _parse_patch_header(DiffHeader(patchIn)).err = NoError
                => /\ Len(_parse_patch_header(DiffHeader(patchIn)).items)
                        = Len(patchIn.entries)
                   /\ \A k \in 1..Len(patchIn.entries) :
                        _parse_patch_header(DiffHeader(patchIn)).items[k].name
                            = FinalName(patchIn.entries[k])

C8_Witness ==
    /\ ShowDone /\ DiffDone
    /\ Len(patchIn.entries) = 2
    /\ Len(diffOut[1].files) = 2
    /\ diffOut[1].files[1].filename = FinalName(patchIn.entries[1])
    /\ diffOut[1].files = showOut[1].files

\* the claims on the pairing of header entries and diff blocks, for one run r
\* of _parse_patch on a patch whose chunks have h header entries and d blocks
PairingOriginal(p, r) ==
    (Len(p.entries) # Len(p.blocks)
        /\ \A k \in 1..Min(Len(p.entries), Len(p.blocks)) : Decodable(p.entries[k]))
        => /\ r.err = NoError
           /\ Len(r.files) <= Min(Len(p.entries), Len(p.blocks)) * Changed(p)
           /\ \A c \in 1..Len(r.decoded) : r.decoded[c] <= Len(p.blocks)

PairingAmended(p, r, headerEmpty) ==
    /\ Len(r.files) <= Min(Len(p.entries), Len(p.blocks)) * Changed(p)
    /\ \A c \in 1..Len(r.decoded) : r.decoded[c] <= Len(p.blocks) + 1
    /\ (~headerEmpty
          /\ \A k \in 1..Min(Len(p.entries), Len(p.blocks) + 1) : Decodable(p.entries[k]))
        => r.err = NoError

\* C10 as claimed: when the counts of header entries and diff blocks differ,
\* no error is raised, at most min(entries, blocks) records are produced, and
\* no header entry beyond the last diff block is decoded.
C10_PairingOriginal ==
    /\ ShowDone => PairingOriginal(patchIn, showOut[1])
    /\ DiffDone => PairingOriginal(patchIn, diffOut[1])

\* C10 amended: at most min(entries, blocks) records per chunk are produced;
\* the header entry right after the last diff block is still decoded, later
\* ones never; so no error is raised when the header is not empty and the
\* entries up to that one decode.
C10_PairingAmended ==
    /\ ShowDone => PairingAmended(patchIn, showOut[1], FALSE)
    /\ DiffDone => PairingAmended(patchIn, diffOut[1],
                                  patchIn.entries = <<>> /\ patchIn.blocks # <<>>)

C10_Witness ==
    /\ ShowDone
    /\ Len(patchIn.entries) = 3 /\ Len(patchIn.blocks) = 1 /\ patchIn.blocks[1]
    /\ Decodable(patchIn.entries[1]) /\ Decodable(patchIn.entries[2])
    /\ ~Recognised(patchIn.entries[3])
    /\ showOut[1].err = NoError
    /\ showOut[1].decoded[1] = 2
    /\ Len(showOut[1].files) = Changed(patchIn)

-----------------------------------------------------------------------------
(* Commit: construction, .info, .files, get_files() *)

MaxAccesses == 2    \* reads of .files by the caller
MaxGens == 1        \* generators obtained from get_files()
MaxCommitFiles == 2 \* files of the commit behind a Commit object

Sha == "9537b63"
None == "None"
_UNKNOWN_COMMIT_INFORMATION == "unknown"
ParsedInformation == "author, email, date"

ArgsNoPatch == "show --no-patch <sha>"
ArgsShowPatch == "show <sha> --raw -z --patch -m"
ArgsDiffCached == "diff --cached --raw -z --patch -m"

\* git(args, cwd): the text git prints for the repository at hand.  git show
\* always prints the Author and Date lines; gitRepo.patch.info says whether
\* the text handed to from_patch has them.
git(args) ==
    CASE args = ArgsNoPatch    -> <<KW_COMMIT>> \o Preamble(TRUE)
      [] args = ArgsShowPatch  -> ShowPatch([gitRepo.patch EXCEPT !.info = TRUE])
      [] args = ArgsDiffCached -> DiffPatch(gitRepo.patch)

\* REGEX_HEADER_INFO.search(patch) is not None
HasHeaderInfo(text) == In("Author:Date:", text)

\* PatchParseError with the message of from_staged in every mode
PatchParseErrorNoSha(mode, sha, exc) ==
    [type |-> "PatchParseError", msg |-> <<"Could not parse patch: ">> \o exc]

\* raise PatchParseError(f"Could not parse patch (sha: {sha}): {exc}") in
\* from_sha, f"Could not parse patch: {exc}" in from_staged and from_patch
PatchParseError(mode, sha, exc) ==
    [type |-> "PatchParseError",
     msg |-> IF mode = "from_sha"
             THEN <<"Could not parse patch (sha: ", sha, "): ">> \o exc
             ELSE <<"Could not parse patch: ">> \o exc]

NoException == [type |-> "none", msg |-> <<>>]

\* the git call the deferred parser makes before parsing, if any
ParserArgs(mode) ==
    CASE mode = "from_sha"    -> <<ArgsShowPatch>>
      [] mode = "from_staged" -> <<ArgsDiffCached>>
      [] mode = "from_patch"  -> <<>>

\* the text the deferred parser parses
ParserPatch(mode) ==
    CASE mode = "from_sha"    -> git(ArgsShowPatch)
      [] mode = "from_staged" -> git(ArgsDiffCached)
      [] mode = "from_patch"  -> ShowPatch(gitRepo.patch)

\* self._patch_parser() run to its end: the records it yields, then the
\* exception that ends it
Wrapped(mode, sha, r) ==
    [files |-> r.files,
     exc |-> IF r.err = NoError THEN NoException
             ELSE PatchParseError(mode, sha, r.err)]

PatchParser(mode, sha) ==
    Wrapped(mode, sha, _parse_patch(ParserPatch(mode), gitRepo.excl))

LifeEntries ==
    { [status |-> <<"M">>, score |-> <<>>, names |-> <<NameA>>],
      [status |-> <<"X">>, score |-> <<>>, names |-> <<NameB>>],
      [status |-> <<"A">>, score |-> <<>>, names |-> <<NameColon>>] }

CommitPatches ==
    { p \in [entries : SeqsUpTo(LifeEntries, MaxCommitFiles),
             blocks : SeqsUpTo({TRUE}, MaxCommitFiles),
             parents : {<<TRUE>>, <<FALSE, TRUE>>},
             info : BOOLEAN] : Len(p.blocks) = Len(p.entries) }

NoCommit == <<>>
Unset == <<>>
NewSeen == [ctorFailed |-> FALSE, info |-> <<>>, files |-> <<>>]

Init ==
    /\ gitRepo \in [patch : CommitPatches, excl : {{}}]
    /\ self = NoCommit
    /\ gitLog = <<>>
    /\ parserRuns = 0
    /\ gens = <<>>
    /\ seen = NewSeen
    /\ line = <<>> /\ lineOut = Pending
    /\ patchIn = <<>> /\ exclIn = {} /\ showOut = Pending /\ diffOut = Pending

\* Commit.__init__
NewCommit(sha, mode, info) ==
    [sha |-> sha, mode |-> mode, info |-> info, files |-> Unset]

\* from_sha fetching the full patch when the Commit is made
FromShaEager ==
    /\ self = NoCommit /\ ~seen.ctorFailed
    /\ gitLog' = gitLog \o <<ArgsNoPatch, ArgsShowPatch>>
    /\ IF HasHeaderInfo(git(ArgsNoPatch))
       THEN /\ self' = <<NewCommit(Sha, "from_sha", ParsedInformation)>>
            /\ seen' = seen
       ELSE /\ self' = self
            /\ seen' = [seen EXCEPT !.ctorFailed = TRUE]
    /\ UNCHANGED <<gitRepo, parserRuns, gens, lineVars, parseVars>>

\* Commit.from_sha(sha, exclusion_regexes)
FromSha ==
    /\ self = NoCommit /\ ~seen.ctorFailed
    /\ gitLog' = Append(gitLog, ArgsNoPatch)
    /\ IF HasHeaderInfo(git(ArgsNoPatch))
       THEN /\ self' = <<NewCommit(Sha, "from_sha", ParsedInformation)>>
            /\ seen' = seen
       ELSE /\ self' = self
            /\ seen' = [seen EXCEPT !.ctorFailed = TRUE]
    /\ UNCHANGED <<gitRepo, parserRuns, gens, lineVars, parseVars>>

\* Commit.from_staged(exclusion_regexes)
FromStaged ==
    /\ self = NoCommit /\ ~seen.ctorFailed
    /\ self' = <<NewCommit(None, "from_staged", _UNKNOWN_COMMIT_INFORMATION)>>
    /\ UNCHANGED <<gitRepo, gitLog, parserRuns, gens, seen, lineVars, parseVars>>

\* Commit.from_patch(patch, exclusion_regexes)
FromPatch ==
    /\ self = NoCommit /\ ~seen.ctorFailed
    /\ IF HasHeaderInfo(ShowPatch(gitRepo.patch))
       THEN /\ self' = <<NewCommit(None, "from_patch", ParsedInformation)>>
            /\ seen' = seen
       ELSE /\ self' = self
            /\ seen' = [seen EXCEPT !.ctorFailed = TRUE]
    /\ UNCHANGED <<gitRepo, gitLog, parserRuns, gens, lineVars, parseVars>>

\* the caller reads commit.sha and commit.info
ReadInfo ==
    /\ self # NoCommit
    /\ seen.info = <<>>
    /\ seen' = [seen EXCEPT !.info = <<self[1].sha, self[1].info>>]
    /\ UNCHANGED <<gitRepo, self, gitLog, parserRuns, gens, lineVars, parseVars>>

\* ComputeFiles without the store of cached_property
ComputeFilesNoCache(c, r) ==
    /\ gitLog' = gitLog \o ParserArgs(c.mode)
    /\ parserRuns' = parserRuns + 1
    /\ self' = self
    /\ seen' = [seen EXCEPT !.files = Append(@,
                  [ran |-> TRUE,
                   value |-> IF r.exc = NoException THEN <<r.files>> ELSE Unset,
                   exc |-> r.exc])]

\* ComputeFiles keeping the records yielded before the exception
ComputeFilesPartial(c, r) ==
    /\ gitLog' = gitLog \o ParserArgs(c.mode)
    /\ parserRuns' = parserRuns + 1
    /\ self' = <<[c EXCEPT !.files = <<r.files>>]>>
    /\ seen' = [seen EXCEPT !.files = Append(@,
                  [ran |-> TRUE, value |-> <<r.files>>, exc |-> NoException])]

\* list(self.get_files()) on a cache miss: r is the parser's run.  The list is
\* stored by cached_property only when list() returns.
ComputeFiles(c, r) ==
    /\ gitLog' = gitLog \o ParserArgs(c.mode)
    /\ parserRuns' = parserRuns + 1
    /\ IF r.exc = NoException
       THEN /\ self' = <<[c EXCEPT !.files = <<r.files>>]>>
            /\ seen' = [seen EXCEPT !.files = Append(@,
                          [ran |-> TRUE, value |-> <<r.files>>, exc |-> NoException])]
       ELSE /\ self' = self
            /\ seen' = [seen EXCEPT !.files = Append(@,
                          [ran |-> TRUE, value |-> Unset, exc |-> r.exc])]

\* the caller reads commit.files (a cached_property over list(self.get_files()))
AccessFiles ==
    /\ self # NoCommit
    /\ Len(seen.files) < MaxAccesses
    /\ IF self[1].files # Unset
       THEN /\ seen' = [seen EXCEPT !.files = Append(@,
                          [ran |-> FALSE, value |-> self[1].files, exc |-> NoException])]
            /\ UNCHANGED <<self, gitLog, parserRuns>>
       ELSE ComputeFiles(self[1], PatchParser(self[1].mode, self[1].sha))
    /\ UNCHANGED <<gitRepo, gens, lineVars, parseVars>>

\* the caller calls commit.get_files(): a generator, not yet started
GetFiles ==
    /\ self # NoCommit
    /\ Len(gens) < MaxGens
    /\ gens' = Append(gens, [state |-> "created", rest |-> <<>>, exc |-> NoException,
                             delivered |-> <<>>, raised |-> NoException])
    /\ UNCHANGED <<gitRepo, self, gitLog, parserRuns, seen, lineVars, parseVars>>

\* one resume of a generator whose frame holds what is left of the parser's
\* run (rest, then exc): the caller gets the next record, or the exception,
\* or StopIteration
Resumed(gen, rest, exc) ==
    IF rest # <<>>
    THEN [state |-> "suspended", rest |-> Tail(rest), exc |-> exc,
          delivered |-> Append(gen.delivered, Head(rest)), raised |-> NoException]
    ELSE [state |-> "closed", rest |-> <<>>, exc |-> NoException,
          delivered |-> gen.delivered, raised |-> exc]

FirstResume(gen, r) == Resumed(gen, r.files, r.exc)

\* the caller resumes generator g: next(g).  The first resume enters the
\* parser: it calls git, then starts _parse_patch.
GenNext(g) ==
    /\ gens[g].state \in {"created", "suspended"}
    /\ IF gens[g].state = "created"
       THEN /\ gitLog' = gitLog \o ParserArgs(self[1].mode)
            /\ parserRuns' = parserRuns + 1
            /\ gens' = [gens EXCEPT ![g] =
                           FirstResume(gens[g], PatchParser(self[1].mode, self[1].sha))]
       ELSE /\ UNCHANGED <<gitLog, parserRuns>>
            /\ gens' = [gens EXCEPT ![g] = Resumed(gens[g], gens[g].rest, gens[g].exc)]
    /\ UNCHANGED <<gitRepo, self, seen, lineVars, parseVars>>

Next ==
    \/ FromSha
    \/ FromStaged
    \/ FromPatch
    \/ ReadInfo
    \/ AccessFiles
    \/ GetFiles
    \/ \E g \in 1..Len(gens) : GenNext(g)

Spec == Init /\ [][Next]_vars

-----------------------------------------------------------------------------
(* Claims on Commit (Spec) *)

Constructed == self # NoCommit

\* the run of _parse_patch on this Commit's patch
TheRun == _parse_patch(ParserPatch(self[1].mode), gitRepo.excl)

EndsWith(s, t) ==
    Len(t) <= Len(s) /\ SubSeq(s, Len(s) - Len(t) + 1, Len(s)) = t

\* every exception the caller got from .files or from a generator
Raised ==
    ({seen.files[k].exc : k \in 1..Len(seen.files)}
        \cup {gens[g].raised : g \in 1..Len(gens)}) \ {NoException}

\* the commit a Commit stands for, as an error message could name it
CommitContext(c) ==
    CASE c.mode = "from_sha"    -> c.sha
      [] c.mode = "from_staged" -> "staged"
      [] c.mode = "from_patch"  -> "direct patch"

\* C2 as claimed: in each of the three construction modes an error raised in
\* the parsing pipeline reaches the caller as a PatchParseError that keeps the
\* original message and names the commit it is about.
C2_ErrorsNameCommit ==
    \A e \in Raised :
        /\ e.type = "PatchParseError"
        /\ EndsWith(e.msg, TheRun.err)
        /\ In(CommitContext(self[1]), e.msg)

\* C2 amended: an error raised in the parsing pipeline reaches the caller as
\* a PatchParseError and as nothing else; its message ends with the original
\* error's message; for a Commit made by from_sha it names that sha, and for
\* one made by from_staged or from_patch it is "Could not parse patch: "
\* followed by the original message, with nothing that names the commit.
C2_ErrorsWrapped ==
    /\ \A e \in Raised :
          /\ e.type = "PatchParseError"
          /\ TheRun.err # NoError
          /\ EndsWith(e.msg, TheRun.err)
          /\ IF self[1].mode = "from_sha"
             THEN e.msg = <<"Could not parse patch (sha: ", self[1].sha, "): ">>
                              \o TheRun.err
             ELSE e.msg = <<"Could not parse patch: ">> \o TheRun.err
    /\ \A k \in 1..Len(seen.files) :
          TheRun.err # NoError => seen.files[k].exc # NoException
    /\ \A g \in 1..Len(gens) :
          gens[g].state = "closed" =>
              (TheRun.err # NoError <=> gens[g].raised # NoException)

C2_Witness ==
    /\ Constructed /\ self[1].mode = "from_staged"
    /\ Len(seen.files) >= 1
    /\ seen.files[1].exc.type = "PatchParseError"
    /\ seen.files[1].exc.msg = <<"Could not parse patch: ">> \o TheRun.err
    /\ Len(gens) >= 1 /\ gens[1].raised = seen.files[1].exc

Ran == {k \in 1..Len(seen.files) : seen.files[k].ran}
Returned == {k \in 1..Len(seen.files) : seen.files[k].exc = NoException}

\* C3 as claimed: over any sequence of reads of .files the parser runs at most
\* once, and every read after the first returns the list cached by the first.
C3_ComputedOnce ==
    /\ Cardinality(Ran) <= 1
    /\ \A k \in 2..Len(seen.files) :
          /\ seen.files[k].exc = NoException
          /\ seen.files[k].value = seen.files[1].value

\* C3 amended: a read of .files runs the parser exactly when no earlier read
\* has returned; once a read has returned, every later read returns that list
\* without running the parser or git.  A read that raises caches nothing, so
\* the next read runs the parser (and its git call) again.
C3_ComputedOnceReturned ==
    /\ \A k \in 1..Len(seen.files) :
          seen.files[k].ran <=> (\A j \in 1..(k - 1) : j \notin Returned)
    /\ \A j \in Returned : \A k \in (j + 1)..Len(seen.files) :
          /\ seen.files[k].exc = NoException
          /\ seen.files[k].value = seen.files[j].value
    /\ Cardinality(Ran \cap Returned) <= 1
    /\ gens = <<>> =>
          /\ parserRuns = Cardinality(Ran)
          /\ Constructed =>
                Cardinality({i \in 1..Len(gitLog) : gitLog[i] # ArgsNoPatch})
                    = Cardinality(Ran) * Len(ParserArgs(self[1].mode))

C3_Witness ==
    /\ Len(seen.files) = 2
    /\ seen.files[1].ran /\ seen.files[1].exc = NoException
    /\ seen.files[1].value # <<<<>>>>
    /\ ~seen.files[2].ran
    /\ seen.files[2].value = seen.files[1].value
    /\ parserRuns = 1

\* C4 as claimed: through .files and through get_files() alike, no record of
\* a commit reaches the caller when the parse of that commit fails.
C4_NoPartialSuccess ==
    /\ \A k \in 1..Len(seen.files) :
          seen.files[k].exc # NoException => seen.files[k].value = Unset
    /\ \A g \in 1..Len(gens) :
          gens[g].raised # NoException => gens[g].delivered = <<>>

IsPrefix(s, t) == Len(s) <= Len(t) /\ SubSeq(t, 1, Len(s)) = s

\* C4 amended: a read of .files returns the whole list of the commit or raises
\* and returns (and caches) nothing.  A generator from get_files() delivers
\* the records in order as they are parsed: those parsed before the failing
\* header line or diff block reach the caller, then the exception is raised.
C4_PartialOnlyThroughGenerator ==
    /\ \A k \in 1..Len(seen.files) :
          IF seen.files[k].exc = NoException
          THEN TheRun.err = NoError /\ seen.files[k].value = <<TheRun.files>>
          ELSE TheRun.err # NoError /\ seen.files[k].value = Unset
    /\ (Constructed /\ Returned = {}) => self[1].files = Unset
    /\ \A g \in 1..Len(gens) :
          /\ IsPrefix(gens[g].delivered, TheRun.files)
          /\ gens[g].raised # NoException =>
                TheRun.err # NoError /\ gens[g].delivered = TheRun.files

C4_Witness ==
    /\ Len(gens) >= 1
    /\ gens[1].raised # NoException
    /\ Len(gens[1].delivered) >= 1
    /\ Len(seen.files) >= 1
    /\ seen.files[1].exc # NoException /\ seen.files[1].value = Unset

Untouched ==
    /\ seen.files = <<>>
    /\ \A g \in 1..Len(gens) : gens[g].state = "created"

\* C9: until .files is read or a generator from get_files() is resumed, the
\* parser has not run and git has not been asked for the patch; from_sha has
\* made the no-patch query only.  Construction fails over a missing
\* Author/Date header only, never over the body of the patch.
C9_Lazy ==
    /\ (Constructed /\ Untouched) =>
          /\ parserRuns = 0
          /\ gitLog = IF self[1].mode = "from_sha" THEN <<ArgsNoPatch>> ELSE <<>>
    /\ ~Constructed => parserRuns = 0 /\ gitLog \in {<<>>, <<ArgsNoPatch>>}
    /\ seen.ctorFailed => ~gitRepo.patch.info

C9_Witness ==
    /\ Constructed /\ self[1].mode = "from_sha"
    /\ gitRepo.patch.entries # <<>> /\ ~Recognised(gitRepo.patch.entries[1])
    /\ seen.info = <<Sha, ParsedInformation>>
    /\ Len(gens) = 1 /\ Untouched
    /\ parserRuns = 0 /\ gitLog = <<ArgsNoPatch>>

====
